---- MODULE Spec2Model ----
(***************************************************************************)
(* Volunteer / event coordination application.                             *)
(*                                                                         *)
(* Two deployments of the client live in the repository:                   *)
(*   - the API client (pages under vite-project/src/pages, AuthContext,    *)
(*     services/api.ts) that talks to the backend Engine, and              *)
(*   - the browser-local client that keeps everything in localStorage.     *)
(* The backend sources are not part of the tree; the Engine operators      *)
(* below, named Engine_xxx, follow the written contract of the Matching &  *)
(* Enrollment Engine.                                                      *)
(***************************************************************************)
EXTENDS Integers, Sequences, FiniteSets, Bags, TLC

NULL == "null"

\* AuthContext.user === null
NoUser == [id |-> NULL, role |-> NULL]

\* localStorage.getItem(key): null for a key never written, else the value
Absent == <<>>
Stored(x) == <<x>>

\* ---- bounds of the model ------------------------------------------------
MaxCapacity == 2

\* bound on the length of the local event catalog
MaxLocalEvents == 2

\* bound on the number of events a volunteer's history spans
MaxHistory == 3

\* bound on the number of availability slots of a profile
MaxAvail == 2

\* bound on the number of notifications the backend holds for the user
MaxNotifications == 3

\* bound on the length of the event list the matching pages read
MaxMatchEvents == 2

\* const ADMIN_PASSWORD = 'admin123'
ADMIN_PASSWORD == "admin123"

\* ---- identities -----------------------------------------------------------
Volunteers == {"v1", "v2"}
Admins == {"adm"}
Anonymous == {"anon"}
Users == Volunteers \cup Admins
Browsers == Users \cup Anonymous
\* ids the Event Catalog assigns in this model
EventIds == {1}

\* local-storage variant: registered emails, browser tabs showing the
\* AvailableEvents page, event names typed by the administrator, answers
\* typed into the password prompt
LocalUsers == {"u1", "u2"}
Tabs == {1, 2}
LocalNames == {"A", "B"}
Passwords == {ADMIN_PASSWORD, "guess"}

\* callers tried for the calls that have no page of their own
Callers == {"adm", "v1", "anon"}

\* arguments tried for a caller: the Engine turns a caller without the admin
\* role away before it reads the arguments, so one representative is enough
ArgsFor(c, S) == IF c \in Admins THEN S ELSE {CHOOSE x \in S : TRUE}

EventStatuses == {"open", "closed", "cancelled"}
ParticipationStatuses == {"pending", "completed", "cancelled", "no_show"}
TerminalStatuses == {"completed", "cancelled", "no_show"}
ActiveStatuses == {"pending", "completed"}

VARIABLES
  srvEvents,     \* Event Catalog of the backend: event id -> [capacity, status]
  srvNextId,     \* next event id the backend assigns
  srvLedger,     \* Participation ledger of the backend: bag of records
  clUser,        \* AuthContext.user per browser (NoUser or [id, role])
  clJoined,      \* AvailableEvents: joinedEventIds
  inflight,      \* participateInEvent request awaiting the backend, per browser
  dashOpen,      \* AdminDashboard rendered (past the isAdmin guard), per browser
  lastResult,    \* outcome of the most recent operation (response / alert)
  lsEvents,      \* localStorage 'events': the browser-local event catalog
  lsParticipation, \* localStorage 'participation_<email>', per email
  lsCurrentUser, \* localStorage 'currentUser'
  pgUser,        \* local AvailableEvents: currentUserEmail of the tab's render
  pgEvents,      \* local AvailableEvents: events state of the tab
  pgJoined,      \* local AvailableEvents: joinedEvents state of the tab
  admAuthenticated, \* local AdminDashboard: authenticated state
  admEvents,     \* local AdminDashboard: events state
  mtVolunteer,   \* profile_<email> as the matching pages read it: Absent or Stored(v)
  mtEvents,      \* 'events' as the matching pages read it: Absent or Stored(list)
  matches,       \* VolunteerMatching: matches state
  notifications, \* Notifications (local): notifications state
  hsHistory,     \* VolunteerHistoryPage: history state
  hsStats,       \* VolunteerHistoryPage: stats state, Absent (null) or Stored(stats)
  lsToken,       \* localStorage 'access_token' per browser: NULL or the user it names
  lsProfiles,    \* localStorage 'profile_<email>' per user: Absent or Stored(form)
  pfUser,        \* Profile page: currentUserEmail as of its last render
  pfForm,        \* Profile page: form state
  srvProfiles,   \* backend profile store per user: Absent or Stored(profileData)
  lsUsers,       \* localStorage 'users': registered email -> credential
  ntList,        \* Notifications page (API client): notifications state
  srvNotifs      \* backend: the signed-in user's notifications

apiVars == <<srvEvents, srvNextId, srvLedger, clUser, clJoined, inflight, dashOpen>>

localVars == <<lsEvents, lsParticipation, lsCurrentUser, pgUser, pgEvents,
               pgJoined, admAuthenticated, admEvents>>

matchVars == <<mtVolunteer, mtEvents, matches, notifications>>

\* the variables of the pages that stand apart from the two variants above
statsVars == <<hsHistory, hsStats>>

authVars == <<lsToken>>

\* where a saved profile is kept: localStorage, the backend
profileStores == <<lsProfiles, srvProfiles>>

profileVars == <<lsProfiles, pfUser, pfForm, srvProfiles>>

\* the variables of the remaining pages of the local-storage variant
registerVars == <<lsUsers>>

notifVars == <<ntList, srvNotifs>>

pageVars == <<profileVars, registerVars, notifVars>>

sideVars == <<matchVars, statsVars, authVars, pageVars>>

vars == <<srvEvents, srvNextId, srvLedger, clUser, clJoined, inflight, dashOpen,
          lastResult, lsEvents, lsParticipation, lsCurrentUser, pgUser, pgEvents,
          pgJoined, admAuthenticated, admEvents, mtVolunteer, mtEvents, matches,
          notifications, hsHistory, hsStats, lsToken, lsProfiles, pfUser, pfForm,
          srvProfiles, lsUsers, ntList, srvNotifs>>

\* ---- Identity / Auth collaborator ----------------------------------------
RoleOf(u) == IF u \in Admins THEN "admin" ELSE "volunteer"

UserData(u) == [id |-> u, role |-> RoleOf(u)]

\* role claim the Identity collaborator derives from the request's bearer
\* token (getAuthHeaders sends none when no token is stored)
CallerRole(c) == IF c \in Users THEN RoleOf(c) ELSE "none"

\* variant of isAdmin that takes every signed-in user for an administrator
isAdmin_anyUser(user) == user # NoUser

\* AuthContext.isAdmin: user?.role === 'admin'
isAdmin(user) == user # NoUser /\ user.role = "admin"

\* AuthContext value: isAuthenticated = !!user
isAuthenticated(user) == user # NoUser

\* ---- Engine (backend) ----------------------------------------------------
Record(v, e, s) == [volunteer_id |-> v, event_id |-> e, status |-> s]

RecordsOf(L, v, e) ==
  {r \in BagToSet(L) : r.volunteer_id = v /\ r.event_id = e}

\* number of records of event e that count toward capacity
ActiveCount(L, e) ==
  LET act == {r \in BagToSet(L) : r.event_id = e /\ r.status \in ActiveStatuses}
  IN  BagCardinality([r \in act |-> L[r]])

Outcome(res, L) == [result |-> res, ledger |-> L]

\* variant of join whose capacity test is off by one (admits at capacity)
Engine_join_overAdmit(L, E, role, v, e) ==
  IF role = "none" THEN Outcome("Unauthorized", L)
  ELSE IF e \notin DOMAIN E THEN Outcome("NotFound", L)
  ELSE IF E[e].status # "open" THEN Outcome("EventNotJoinable", L)
  ELSE IF RecordsOf(L, v, e) # {} THEN Outcome("AlreadyEnrolled", L)
  ELSE IF ActiveCount(L, e) > E[e].capacity THEN Outcome("CapacityExceeded", L)
  ELSE Outcome("ok", L (+) SetToBag({Record(v, e, "pending")}))

\* variant of join that turns the volunteer away while one slot is still free
Engine_join_underAdmit(L, E, role, v, e) ==
  IF role = "none" THEN Outcome("Unauthorized", L)
  ELSE IF e \notin DOMAIN E THEN Outcome("NotFound", L)
  ELSE IF E[e].status # "open" THEN Outcome("EventNotJoinable", L)
  ELSE IF RecordsOf(L, v, e) # {} THEN Outcome("AlreadyEnrolled", L)
  ELSE IF ActiveCount(L, e) + 1 >= E[e].capacity THEN Outcome("CapacityExceeded", L)
  ELSE Outcome("ok", L (+) SetToBag({Record(v, e, "pending")}))

\* variant of join that does not look at the event's status
Engine_join_anyStatus(L, E, role, v, e) ==
  IF role = "none" THEN Outcome("Unauthorized", L)
  ELSE IF e \notin DOMAIN E THEN Outcome("NotFound", L)
  ELSE IF RecordsOf(L, v, e) # {} THEN Outcome("AlreadyEnrolled", L)
  ELSE IF ActiveCount(L, e) >= E[e].capacity THEN Outcome("CapacityExceeded", L)
  ELSE Outcome("ok", L (+) SetToBag({Record(v, e, "pending")}))

\* variant of join that counts only pending records toward capacity
Engine_join_pendingOnly(L, E, role, v, e) ==
  IF role = "none" THEN Outcome("Unauthorized", L)
  ELSE IF e \notin DOMAIN E THEN Outcome("NotFound", L)
  ELSE IF E[e].status # "open" THEN Outcome("EventNotJoinable", L)
  ELSE IF RecordsOf(L, v, e) # {} THEN Outcome("AlreadyEnrolled", L)
  ELSE IF Cardinality({r \in BagToSet(L) : r.event_id = e /\ r.status = "pending"})
            >= E[e].capacity THEN Outcome("CapacityExceeded", L)
  ELSE Outcome("ok", L (+) SetToBag({Record(v, e, "pending")}))

\* join(volunteer_id, event_id): one atomic admission decision
Engine_join(L, E, role, v, e) ==
  IF role = "none" THEN Outcome("Unauthorized", L)
  ELSE IF e \notin DOMAIN E THEN Outcome("NotFound", L)
  ELSE IF E[e].status # "open" THEN Outcome("EventNotJoinable", L)
  ELSE IF RecordsOf(L, v, e) # {} THEN Outcome("AlreadyEnrolled", L)
  ELSE IF ActiveCount(L, e) >= E[e].capacity THEN Outcome("CapacityExceeded", L)
  ELSE Outcome("ok", L (+) SetToBag({Record(v, e, "pending")}))

\* variant of unjoin that deletes the record whatever its status
Engine_unjoin_anyStatus(L, role, v, e) ==
  LET mine == RecordsOf(L, v, e)
  IN  IF role = "none" THEN Outcome("Unauthorized", L)
      ELSE IF \A r \in mine : r.status = "cancelled" THEN Outcome("NotEnrolled", L)
      ELSE Outcome("ok", [r \in BagToSet(L) \ mine |-> L[r]])

\* unjoin(volunteer_id, event_id): hard delete of the PENDING record
Engine_unjoin(L, role, v, e) ==
  LET mine == RecordsOf(L, v, e)
  IN  IF role = "none" THEN Outcome("Unauthorized", L)
      ELSE IF \A r \in mine : r.status = "cancelled" THEN Outcome("NotEnrolled", L)
      ELSE IF Record(v, e, "pending") \notin mine THEN Outcome("InvalidTransition", L)
      ELSE Outcome("ok", L (-) SetToBag({Record(v, e, "pending")}))

\* variant of setStatus that rewrites the record whatever its present status
Engine_setStatus_anyTransition(L, role, e, v, s) ==
  LET mine == RecordsOf(L, v, e)
  IN  IF role = "none" THEN Outcome("Unauthorized", L)
      ELSE IF role # "admin" THEN Outcome("Forbidden", L)
      ELSE IF mine = {} THEN Outcome("NotFound", L)
      ELSE Outcome("ok", [r \in BagToSet(L) \ mine |-> L[r]]
                            (+) SetToBag({Record(v, e, s)}))

\* setStatus(event_id, volunteer_id, newStatus): administrator only
Engine_setStatus(L, role, e, v, s) ==
  LET mine == RecordsOf(L, v, e)
  IN  IF role = "none" THEN Outcome("Unauthorized", L)
      ELSE IF role # "admin" THEN Outcome("Forbidden", L)
      ELSE IF mine = {} THEN Outcome("NotFound", L)
      ELSE IF \E r \in mine : r.status \in TerminalStatuses
           THEN Outcome("InvalidTransition", L)
      ELSE IF s = "pending" THEN Outcome("ok", L)
      ELSE Outcome("ok", (L (-) SetToBag({Record(v, e, "pending")}))
                            (+) SetToBag({Record(v, e, s)}))

EventOutcome(res, E, n) == [result |-> res, events |-> E, nextId |-> n]

\* Event Catalog create (admin-gated): capacity >= 1
Engine_createEvent(E, n, role, cap, st) ==
  IF role = "none" THEN EventOutcome("Unauthorized", E, n)
  ELSE IF role # "admin" THEN EventOutcome("Forbidden", E, n)
  ELSE IF cap < 1 THEN EventOutcome("ValidationError", E, n)
  ELSE EventOutcome("ok", (n :> [capacity |-> cap, status |-> st]) @@ E, n + 1)

\* Event Catalog update (admin-gated): the active count must stay <= capacity
Engine_updateEvent(E, n, L, role, e, cap, st) ==
  IF role = "none" THEN EventOutcome("Unauthorized", E, n)
  ELSE IF role # "admin" THEN EventOutcome("Forbidden", E, n)
  ELSE IF e \notin DOMAIN E THEN EventOutcome("NotFound", E, n)
  ELSE IF cap < 1 \/ cap < ActiveCount(L, e) THEN EventOutcome("ValidationError", E, n)
  ELSE EventOutcome("ok", [E EXCEPT ![e] = [capacity |-> cap, status |-> st]], n)

\* Event Catalog delete (admin-gated); ledger records of the event are kept
Engine_deleteEvent(E, n, role, e) ==
  IF role = "none" THEN EventOutcome("Unauthorized", E, n)
  ELSE IF role # "admin" THEN EventOutcome("Forbidden", E, n)
  ELSE IF e \notin DOMAIN E THEN EventOutcome("NotFound", E, n)
  ELSE EventOutcome("ok", [x \in DOMAIN E \ {e} |-> E[x]], n)

Result(op, res) == [op |-> op, result |-> res]

\* ---- initial state --------------------------------------------------------
InitApi ==
  /\ srvEvents = <<>>
  /\ srvNextId = 1
  /\ srvLedger = EmptyBag
  /\ clUser = [c \in Browsers |-> IF c \in Users THEN UserData(c) ELSE NoUser]
  /\ clJoined = [c \in Browsers |-> {}]
  /\ inflight = [c \in Browsers |-> 0]
  /\ dashOpen = [c \in Browsers |-> FALSE]
  /\ lastResult = Result("none", "none")

\* localStorage is empty and no page of the local-storage variant is open
InitLocal ==
  /\ lsEvents = <<>>
  /\ lsParticipation = [u \in LocalUsers |-> <<>>]
  /\ lsCurrentUser = NULL
  /\ pgUser = [t \in Tabs |-> NULL]
  /\ pgEvents = [t \in Tabs |-> <<>>]
  /\ pgJoined = [t \in Tabs |-> {}]
  /\ admAuthenticated = FALSE
  /\ admEvents = <<>>

\* the matching pages have not run: nothing read, nothing computed
InitMatchPages ==
  /\ mtVolunteer = Absent
  /\ mtEvents = Absent
  /\ matches = <<>>
  /\ notifications = <<>>

\* VolunteerHistoryPage before its first fetch
InitHistoryPage ==
  /\ hsHistory = {}
  /\ hsStats = Absent

\* the signed-in users of InitApi hold their access token
InitTokens == lsToken = [c \in Browsers |-> IF c \in Users THEN c ELSE NULL]

\* type Availability of the Profile page
Availability(d, t) == [date |-> d, time |-> t]

\* useState initial value of the Profile form (address2 and preferences are
\* optional free text no handler reads; they are left out)
EmptyForm ==
  [email |-> "", fullName |-> "", address1 |-> "", city |-> "", state |-> "",
   zip |-> "", skills |-> {}, availability |-> <<>>, newDate |-> "", newTime |-> ""]

\* no profile stored, no Profile page rendered yet
InitProfilePage ==
  /\ lsProfiles = [u \in LocalUsers |-> Absent]
  /\ srvProfiles = [u \in Users |-> Absent]
  /\ pfUser = NULL
  /\ pfForm = EmptyForm

\* nobody is registered
InitRegisterPage == lsUsers = <<>>

\* the Notifications page has fetched nothing; the user has no notification
InitNotificationsPage ==
  /\ ntList = <<>>
  /\ srvNotifs = <<>>

InitPages == InitProfilePage /\ InitRegisterPage /\ InitNotificationsPage

InitSide == InitMatchPages /\ InitHistoryPage /\ InitTokens /\ InitPages

Init == InitApi /\ InitLocal /\ InitSide

\* ---- AvailableEvents page (API client) ----------------------------------
\* useEffect -> fetchData: getEvents() then getHistory()
fetchData(c) ==
  /\ clUser[c] # NoUser
  /\ clJoined' = [clJoined EXCEPT ![c] =
                  {r.event_id : r \in {x \in BagToSet(srvLedger) : x.volunteer_id = c}}]
  /\ UNCHANGED <<srvEvents, srvNextId, srvLedger, clUser, inflight, dashOpen,
                 lastResult>>
  /\ UNCHANGED localVars
  /\ UNCHANGED sideVars

\* handleJoin up to the await.  The Join button is rendered for the events of
\* the fetched list that are not in joinedEventIds; the fetched list may be
\* arbitrarily stale, so any event the catalog has ever held can be asked for
handleJoin(c, e) ==
  /\ clUser[c] # NoUser
  /\ e < srvNextId
  /\ e \notin clJoined[c]
  /\ inflight[c] = 0
  /\ inflight' = [inflight EXCEPT ![c] = e]
  /\ UNCHANGED <<srvEvents, srvNextId, srvLedger, clUser, clJoined,
                 dashOpen, lastResult>>
  /\ UNCHANGED localVars
  /\ UNCHANGED sideVars

\* POST /history/participate/{id} handled by the backend, and the rest of
\* handleJoin: setJoinedEventIds on success, alert(message) on failure
participateInEvent(c) ==
  /\ inflight[c] # 0
  /\ LET e == inflight[c]
         out == Engine_join(srvLedger, srvEvents, CallerRole(c), c, e)
     IN  /\ srvLedger' = out.ledger
         /\ lastResult' = Result("join", out.result)
         /\ clJoined' = IF out.result = "ok" /\ clUser[c] # NoUser
                        THEN [clJoined EXCEPT ![c] = @ \cup {e}]
                        ELSE clJoined
  /\ inflight' = [inflight EXCEPT ![c] = 0]
  /\ UNCHANGED <<srvEvents, srvNextId, clUser, dashOpen>>
  /\ UNCHANGED localVars
  /\ UNCHANGED sideVars

\* ---- ApiService calls without a page of their own ------------------------
\* ApiService.cancelSignup: DELETE /matching/signup/{id} (unjoin)
cancelSignup(c, e) ==
  /\ LET out == Engine_unjoin(srvLedger, CallerRole(c), c, e)
     IN  /\ srvLedger' = out.ledger
         /\ lastResult' = Result("unjoin", out.result)
  /\ UNCHANGED <<srvEvents, srvNextId, clUser, clJoined, inflight, dashOpen>>
  /\ UNCHANGED localVars
  /\ UNCHANGED sideVars

\* ApiService.updateParticipationStatus: PUT /history/{id}/status (setStatus);
\* v is the volunteer whose record the backend addresses
updateParticipationStatus(c, e, v, s) ==
  /\ LET out == Engine_setStatus(srvLedger, CallerRole(c), e, v, s)
     IN  /\ srvLedger' = out.ledger
         /\ lastResult' = Result("setStatus", out.result)
  /\ UNCHANGED <<srvEvents, srvNextId, clUser, clJoined, inflight, dashOpen>>
  /\ UNCHANGED localVars
  /\ UNCHANGED sideVars

\* ApiService.createEvent: POST /events/
createEvent(c, cap, st) ==
  /\ srvNextId \in EventIds
  /\ LET out == Engine_createEvent(srvEvents, srvNextId, CallerRole(c), cap, st)
     IN  /\ srvEvents' = out.events
         /\ srvNextId' = out.nextId
         /\ lastResult' = Result("createEvent", out.result)
  /\ UNCHANGED <<srvLedger, clUser, clJoined, inflight, dashOpen>>
  /\ UNCHANGED localVars
  /\ UNCHANGED sideVars

\* ApiService.updateEvent: PUT /events/{id}
updateEvent(c, e, cap, st) ==
  /\ LET out == Engine_updateEvent(srvEvents, srvNextId, srvLedger, CallerRole(c), e, cap, st)
     IN  /\ srvEvents' = out.events
         /\ srvNextId' = out.nextId
         /\ lastResult' = Result("updateEvent", out.result)
  /\ UNCHANGED <<srvLedger, clUser, clJoined, inflight, dashOpen>>
  /\ UNCHANGED localVars
  /\ UNCHANGED sideVars

\* ApiService.deleteEvent: DELETE /events/{id}
deleteEvent(c, e) ==
  /\ LET out == Engine_deleteEvent(srvEvents, srvNextId, CallerRole(c), e)
     IN  /\ srvEvents' = out.events
         /\ srvNextId' = out.nextId
         /\ lastResult' = Result("deleteEvent", out.result)
  /\ UNCHANGED <<srvLedger, clUser, clJoined, inflight, dashOpen>>
  /\ UNCHANGED localVars
  /\ UNCHANGED sideVars

\* ---- AdminDashboard page (API client) -----------------------------------
\* useEffect guard: not authenticated -> navigate('/'); not admin -> alert
\* 'Access denied' and navigate('/'); otherwise the dashboard is rendered
AdminDashboard_mount(c) ==
  /\ ~dashOpen[c]
  /\ IF ~isAuthenticated(clUser[c])
     THEN /\ lastResult' = Result("adminDashboard", "Redirected")
          /\ UNCHANGED dashOpen
     ELSE IF ~isAdmin(clUser[c])
     THEN /\ lastResult' = Result("adminDashboard", "AccessDenied")
          /\ UNCHANGED dashOpen
     ELSE /\ dashOpen' = [dashOpen EXCEPT ![c] = TRUE]
          /\ lastResult' = Result("adminDashboard", "ok")
  /\ UNCHANGED <<srvEvents, srvNextId, srvLedger, clUser, clJoined, inflight>>
  /\ UNCHANGED localVars
  /\ UNCHANGED sideVars

\* value of the capacity input: the number 1 of the initial form, or the
\* string the number input holds after handleChange
CapNumber(n) == [type |-> "number", empty |-> FALSE, n |-> n]
CapString(n) == [type |-> "string", empty |-> FALSE, n |-> n]
CapEmpty == [type |-> "string", empty |-> TRUE, n |-> 0]

\* JavaScript !x for the capacity field: 0 and '' are falsy, '0' is not
jsFalsy(capField) ==
  IF capField.type = "number" THEN capField.n = 0 ELSE capField.empty

ValidForm ==
  [title |-> "t", description |-> "d", location |-> "l", category |-> "c",
   event_date |-> "2025-12-25", start_time |-> "09:00", end_time |-> "10:00",
   capacity |-> CapNumber(1), status |-> "open"]

AdminForms ==
  {[ValidForm EXCEPT !.capacity = cf, !.status = st] :
      cf \in {CapNumber(1), CapEmpty} \cup {CapString(n) : n \in 0..MaxCapacity},
      st \in EventStatuses}
  \cup {[ValidForm EXCEPT !.title = ""], [ValidForm EXCEPT !.description = ""],
        [ValidForm EXCEPT !.location = ""], [ValidForm EXCEPT !.category = ""],
        [ValidForm EXCEPT !.event_date = ""], [ValidForm EXCEPT !.start_time = ""],
        [ValidForm EXCEPT !.end_time = ""]}

\* variant of the form's constraint validation without min=1 on capacity
formValid_noMin(form) ==
  /\ form.title # "" /\ form.category # "" /\ form.description # ""
  /\ form.location # "" /\ form.event_date # "" /\ form.start_time # ""
  /\ form.end_time # ""
  /\ ~form.capacity.empty

\* constraint validation of the form element: every input but requirements
\* is required, the capacity input is type=number with min=1
formValid(form) ==
  /\ form.title # "" /\ form.category # "" /\ form.description # ""
  /\ form.location # "" /\ form.event_date # "" /\ form.start_time # ""
  /\ form.end_time # ""
  /\ ~form.capacity.empty /\ form.capacity.n >= 1

\* the check at the head of handleSubmit
missingField(form) ==
  \/ form.title = "" \/ form.description = "" \/ form.location = ""
  \/ form.category = "" \/ form.event_date = "" \/ form.start_time = ""
  \/ form.end_time = "" \/ jsFalsy(form.capacity)

\* handleSubmit: the handlers exist only past the isAdmin guard of the render
AdminDashboard_handleSubmit(c, form) ==
  /\ dashOpen[c]
  /\ isAuthenticated(clUser[c]) /\ isAdmin(clUser[c])
  /\ formValid(form)
  /\ srvNextId \in EventIds
  /\ IF missingField(form)
     THEN /\ lastResult' = Result("createEvent", "MissingField")
          /\ UNCHANGED <<srvEvents, srvNextId>>
     ELSE LET out == Engine_createEvent(srvEvents, srvNextId, CallerRole(c),
                                        form.capacity.n, form.status)
          IN  /\ srvEvents' = out.events
              /\ srvNextId' = out.nextId
              /\ lastResult' = Result("createEvent", out.result)
  /\ UNCHANGED <<srvLedger, clUser, clJoined, inflight, dashOpen>>
  /\ UNCHANGED localVars
  /\ UNCHANGED sideVars

NextApi ==
  \/ \E c \in Volunteers : fetchData(c)
  \/ \E c \in Volunteers, e \in EventIds : handleJoin(c, e)
  \/ \E c \in Volunteers : participateInEvent(c)
  \/ \E c \in Volunteers \cup Anonymous, e \in EventIds : cancelSignup(c, e)
  \/ \E c \in Callers, e \in EventIds :
       \E v \in ArgsFor(c, Volunteers), s \in ArgsFor(c, ParticipationStatuses) :
          updateParticipationStatus(c, e, v, s)
  \/ \E c \in Callers :
       \E cap \in ArgsFor(c, 0..MaxCapacity), st \in ArgsFor(c, EventStatuses) :
          createEvent(c, cap, st)
  \/ \E c \in Callers, e \in EventIds :
       \E cap \in ArgsFor(c, 0..MaxCapacity), st \in ArgsFor(c, EventStatuses) :
          updateEvent(c, e, cap, st)
  \/ \E c \in Callers, e \in EventIds : deleteEvent(c, e)
  \/ \E c \in Browsers : AdminDashboard_mount(c)
  \/ \E c \in Browsers, form \in AdminForms : AdminDashboard_handleSubmit(c, form)

SpecApi == Init /\ [][NextApi]_vars

\* ---- local-storage variant: Login / Logout ------------------------------
\* the Login page stores the email under 'currentUser'
Local_login(u) ==
  /\ lsCurrentUser # u
  /\ lsCurrentUser' = u
  /\ lastResult' = Result("login", "ok")
  /\ UNCHANGED <<lsEvents, lsParticipation, pgUser, pgEvents, pgJoined,
                 admAuthenticated, admEvents>>
  /\ UNCHANGED apiVars
  /\ UNCHANGED sideVars

\* Logout page: removeItem('currentUser'), alert, navigate('/')
Local_Logout ==
  /\ lsCurrentUser # NULL
  /\ lsCurrentUser' = NULL
  /\ lastResult' = Result("logout", "ok")
  /\ UNCHANGED <<lsEvents, lsParticipation, pgUser, pgEvents, pgJoined,
                 admAuthenticated, admEvents>>
  /\ UNCHANGED apiVars
  /\ UNCHANGED sideVars

\* ---- local-storage variant: AvailableEvents page ------------------------
Participation(name, st) == [eventName |-> name, status |-> st]

\* variant of the load that takes no record for joined
joinedNames_none(participation) == {}

\* participation.map(p => p.eventName), read through includes() only
joinedNames(participation) ==
  {participation[k].eventName : k \in DOMAIN participation}

\* variant of the find test that never finds a record
findParticipation_never(participation, name) == FALSE

\* variant of the find test that looks at the first record only
findParticipation_firstOnly(participation, name) ==
  participation # <<>> /\ participation[1].eventName = name

\* participation.find(p => p.eventName === event.eventName)
findParticipation(participation, name) ==
  \E k \in DOMAIN participation : participation[k].eventName = name

RECURSIVE filterOut(_, _)

\* variant of the filter that keeps no record at all
filterOut_dropAll(participation, name) == <<>>

\* participation.filter(p => p.eventName !== event.eventName)
filterOut(participation, name) ==
  IF participation = <<>> THEN <<>>
  ELSE IF Head(participation).eventName = name
       THEN filterOut(Tail(participation), name)
       ELSE <<Head(participation)>> \o filterOut(Tail(participation), name)

\* variant of updateLocalStorage that writes the list under every user's key
updateLocalStorage_allKeys(store, participationKey, updated) ==
  [k \in DOMAIN store |-> updated]

\* updateLocalStorage: setItem(participationKey, JSON.stringify(updated))
updateLocalStorage(store, participationKey, updated) ==
  [store EXCEPT ![participationKey] = updated]

\* the render that follows a state update of tab t: currentUserEmail is read
\* again, and the effect runs again when it differs from the last render's
\* (no user: navigate('/'); else events and joinedEvents are loaded anew)
Rerender(t, joined) ==
  IF lsCurrentUser = pgUser[t]
  THEN /\ pgJoined' = [pgJoined EXCEPT ![t] = joined]
       /\ UNCHANGED <<pgUser, pgEvents>>
  ELSE IF lsCurrentUser = NULL
  THEN /\ pgUser' = [pgUser EXCEPT ![t] = NULL]
       /\ pgEvents' = [pgEvents EXCEPT ![t] = <<>>]
       /\ pgJoined' = [pgJoined EXCEPT ![t] = {}]
  ELSE /\ pgUser' = [pgUser EXCEPT ![t] = lsCurrentUser]
       /\ pgEvents' = [pgEvents EXCEPT ![t] = lsEvents]
       /\ pgJoined' = [pgJoined EXCEPT ![t] = joinedNames(lsParticipation'[lsCurrentUser])]

\* first render and useEffect of the page opened (or reloaded) in tab t
AvailableEvents_mount(t) ==
  /\ IF lsCurrentUser = NULL
     THEN /\ pgUser' = [pgUser EXCEPT ![t] = NULL]
          /\ pgEvents' = [pgEvents EXCEPT ![t] = <<>>]
          /\ pgJoined' = [pgJoined EXCEPT ![t] = {}]
          /\ lastResult' = Result("availableEvents", "Redirected")
     ELSE /\ pgUser' = [pgUser EXCEPT ![t] = lsCurrentUser]
          /\ pgEvents' = [pgEvents EXCEPT ![t] = lsEvents]
          /\ pgJoined' = [pgJoined EXCEPT ![t] = joinedNames(lsParticipation[lsCurrentUser])]
          /\ lastResult' = Result("availableEvents", "ok")
  /\ UNCHANGED <<lsEvents, lsParticipation, lsCurrentUser, admAuthenticated, admEvents>>
  /\ UNCHANGED apiVars
  /\ UNCHANGED sideVars

\* handleJoin of the local page; the Join button of the i-th listed event is
\* rendered when its name is not in joinedEvents
Local_handleJoin(t, i) ==
  /\ pgUser[t] # NULL
  /\ i \in DOMAIN pgEvents[t]
  /\ pgEvents[t][i].eventName \notin pgJoined[t]
  /\ LET name == pgEvents[t][i].eventName
         participation == lsParticipation[pgUser[t]]
     IN  IF findParticipation(participation, name)
         THEN /\ lastResult' = Result("join", "AlreadyEnrolled")
              /\ UNCHANGED <<lsParticipation, pgUser, pgEvents, pgJoined>>
         ELSE /\ lsParticipation' = updateLocalStorage(lsParticipation, pgUser[t],
                                       Append(participation, Participation(name, "Pending")))
              /\ lastResult' = Result("join", "ok")
              /\ Rerender(t, pgJoined[t] \cup {name})
  /\ UNCHANGED <<lsEvents, lsCurrentUser, admAuthenticated, admEvents>>
  /\ UNCHANGED apiVars
  /\ UNCHANGED sideVars

\* handleUnjoin of the local page; the Unjoin button is rendered when the
\* event's name is in joinedEvents
Local_handleUnjoin(t, i) ==
  /\ pgUser[t] # NULL
  /\ i \in DOMAIN pgEvents[t]
  /\ pgEvents[t][i].eventName \in pgJoined[t]
  /\ LET name == pgEvents[t][i].eventName
         participation == lsParticipation[pgUser[t]]
     IN  /\ lsParticipation' = updateLocalStorage(lsParticipation, pgUser[t],
                                  filterOut(participation, name))
         /\ lastResult' = Result("unjoin", "ok")
         /\ Rerender(t, pgJoined[t] \ {name})
  /\ UNCHANGED <<lsEvents, lsCurrentUser, admAuthenticated, admEvents>>
  /\ UNCHANGED apiVars
  /\ UNCHANGED sideVars

\* ---- local-storage variant: AdminDashboard page -------------------------
\* mount: useState initialiser reads 'events'; useEffect prompts for the
\* password and leaves the page on any other answer
LocalAdmin_mount(password) ==
  /\ admAuthenticated' = (password = ADMIN_PASSWORD)
  /\ admEvents' = lsEvents
  /\ lastResult' = Result("adminDashboard",
                          IF password = ADMIN_PASSWORD THEN "ok" ELSE "AccessDenied")
  /\ UNCHANGED <<lsEvents, lsParticipation, lsCurrentUser, pgUser, pgEvents, pgJoined>>
  /\ UNCHANGED apiVars
  /\ UNCHANGED sideVars

\* type Event of the local dashboard: a form filled in for an event name
LocalEvent(name) ==
  [eventName |-> name, description |-> "d", location |-> "l",
   requiredSkills |-> {"Teaching"}, urgency |-> "Low",
   eventDate |-> "2025-07-01", eventTime |-> "09:00"]

\* the filled-in forms, and each of them with one field left empty
LocalEventForms ==
  UNION {{LocalEvent(name),
          [LocalEvent(name) EXCEPT !.eventName = ""],
          [LocalEvent(name) EXCEPT !.description = ""],
          [LocalEvent(name) EXCEPT !.location = ""],
          [LocalEvent(name) EXCEPT !.requiredSkills = {}],
          [LocalEvent(name) EXCEPT !.urgency = ""],
          [LocalEvent(name) EXCEPT !.eventDate = ""],
          [LocalEvent(name) EXCEPT !.eventTime = ""]} : name \in LocalNames}

\* variant of the field test that does not look at requiredSkills
missingLocalField_skillsOptional(form) ==
  \/ form.eventName = "" \/ form.description = "" \/ form.location = ""
  \/ form.urgency = ""
  \/ form.eventDate = "" \/ form.eventTime = ""

\* the test at the head of the local handleSubmit
missingLocalField(form) ==
  \/ form.eventName = "" \/ form.description = "" \/ form.location = ""
  \/ form.requiredSkills = {} \/ form.urgency = ""
  \/ form.eventDate = "" \/ form.eventTime = ""

\* handleSubmit of the local dashboard: a form with an empty field is
\* refused, otherwise [...events, newEvent] is stored
LocalAdmin_handleSubmit(form) ==
  /\ admAuthenticated
  /\ Len(admEvents) < MaxLocalEvents
  /\ IF missingLocalField(form)
     THEN /\ lastResult' = Result("createEvent", "MissingField")
          /\ UNCHANGED <<admEvents, lsEvents>>
     ELSE /\ admEvents' = Append(admEvents, form)
          /\ lsEvents' = Append(admEvents, form)
          /\ lastResult' = Result("createEvent", "ok")
  /\ UNCHANGED <<lsParticipation, lsCurrentUser, pgUser, pgEvents, pgJoined,
                 admAuthenticated>>
  /\ UNCHANGED apiVars
  /\ UNCHANGED sideVars

NextLocal ==
  \/ \E u \in LocalUsers : Local_login(u)
  \/ Local_Logout
  \/ \E t \in Tabs : AvailableEvents_mount(t)
  \/ \E t \in Tabs, i \in 1..MaxLocalEvents : Local_handleJoin(t, i)
  \/ \E t \in Tabs, i \in 1..MaxLocalEvents : Local_handleUnjoin(t, i)
  \/ \E password \in Passwords : LocalAdmin_mount(password)
  \/ \E name \in LocalNames : LocalAdmin_handleSubmit(LocalEvent(name))

SpecLocal == Init /\ [][NextLocal]_vars

\* the local-storage variant with one instance of the events page (tab 1)
NextOneTab ==
  \/ \E u \in LocalUsers : Local_login(u)
  \/ Local_Logout
  \/ AvailableEvents_mount(1)
  \/ \E i \in 1..MaxLocalEvents : Local_handleJoin(1, i)
  \/ \E i \in 1..MaxLocalEvents : Local_handleUnjoin(1, i)
  \/ \E password \in Passwords : LocalAdmin_mount(password)
  \/ \E form \in LocalEventForms : LocalAdmin_handleSubmit(form)

SpecOneTab == Init /\ [][NextOneTab]_vars

\* ---- local-storage variant: VolunteerMatching and Notifications pages ----
\* the pages are functions of the stored profile and the stored event list;
\* arrays that the code reads through some() / includes() only are sets
Skills == {"Teaching", "Cooking"}
Dates == {1, 2}
Times == {9, 10}
Nows == {9, 34}
MatchNames == <<"A", "B", "C">>

Slot(d, t) == [date |-> d, time |-> t]

Slots == {Slot(d, t) : d \in Dates, t \in Times}

\* type Volunteer: skills, availability
MatchVolunteers ==
  [skills : SUBSET Skills,
   availability : {A \in SUBSET Slots : Cardinality(A) <= MaxAvail}]

EventShapes == [requiredSkills : SUBSET Skills, eventDate : Dates, eventTime : Times]

\* type Event[]: the i-th event carries the i-th name
MatchEventLists ==
  UNION {{[i \in 1..n |-> [eventName |-> MatchNames[i],
                           requiredSkills |-> f[i].requiredSkills,
                           eventDate |-> f[i].eventDate,
                           eventTime |-> f[i].eventTime]] :
             f \in [1..n -> EventShapes]} : n \in 0..MaxMatchEvents}

\* variant of skillMatch for which a profile without skills fits every event
skillMatch_emptyProfileFitsAll(event, volunteer) ==
  \/ volunteer.skills = {}
  \/ \E skill \in event.requiredSkills : skill \in volunteer.skills

\* event.requiredSkills.some(skill => volunteer.skills.includes(skill))
skillMatch(event, volunteer) ==
  \E skill \in event.requiredSkills : skill \in volunteer.skills

\* variant of timeMatch that compares the date only
timeMatch_dateOnly(event, volunteer) ==
  \E avail \in volunteer.availability : avail.date = event.eventDate

\* volunteer.availability.some(avail => avail.date === event.eventDate &&
\*                                      avail.time === event.eventTime)
timeMatch(event, volunteer) ==
  \E avail \in volunteer.availability :
     avail.date = event.eventDate /\ avail.time = event.eventTime

RECURSIVE matchedEvents(_, _)

\* variant of the filter that lists the matched events last to first
matchedEvents_lastFirst(events, volunteer) ==
  LET m == SelectSeq(events, LAMBDA e : skillMatch(e, volunteer) /\ timeMatch(e, volunteer))
  IN  [k \in 1..Len(m) |-> m[Len(m) + 1 - k]]

\* events.filter(event => skillMatch && timeMatch)
matchedEvents(events, volunteer) ==
  IF events = <<>> THEN <<>>
  ELSE IF skillMatch(Head(events), volunteer) /\ timeMatch(Head(events), volunteer)
       THEN <<Head(events)>> \o matchedEvents(Tail(events), volunteer)
       ELSE matchedEvents(Tail(events), volunteer)

\* variant of isMatched that asks for every required skill
isMatched_allSkills(event, volunteer) ==
  /\ event.requiredSkills # {}
  /\ \A skill \in event.requiredSkills : skill \in volunteer.skills

\* Notifications: event.requiredSkills.some(skill => volunteer.skills.includes(skill))
isMatched(event, volunteer) ==
  \E skill \in event.requiredSkills : skill \in volunteer.skills

Notification(type, name) == [type |-> type, eventName |-> name]

\* Math.floor((eventDateTime - today) / (1000 * 60 * 60 * 24)), in hours
diffInDays(event, now) == ((event.eventDate * 24 + event.eventTime) - now) \div 24

\* events.forEach(...): the notifications pushed for the events in order
RECURSIVE newNotifications(_, _, _)
newNotifications(events, volunteer, now) ==
  IF events = <<>> THEN <<>>
  ELSE LET event == Head(events)
           mine == IF isMatched(event, volunteer)
                   THEN <<Notification("assigned", event.eventName)>>
                        \o (IF diffInDays(event, now) = 1
                            THEN <<Notification("reminder", event.eventName)>>
                            ELSE <<>>)
                   ELSE <<Notification("new", event.eventName)>>
       IN  mine \o newNotifications(Tail(events), volunteer, now)

\* VolunteerMatching useEffect
VolunteerMatching_mount ==
  /\ IF mtVolunteer = Absent \/ mtEvents = Absent
     THEN /\ lastResult' = Result("matching", "NoData")
          /\ UNCHANGED matches
     ELSE /\ matches' = matchedEvents(mtEvents[1], mtVolunteer[1])
          /\ lastResult' = Result("matching", "ok")
  /\ UNCHANGED <<mtVolunteer, mtEvents, notifications>>
  /\ UNCHANGED <<apiVars, localVars, statsVars, authVars, pageVars>>

\* Notifications useEffect, run at time now
Notifications_mount(now) ==
  /\ IF mtVolunteer = Absent \/ mtEvents = Absent
     THEN /\ lastResult' = Result("notifications", "NoData")
          /\ UNCHANGED notifications
     ELSE /\ notifications' = newNotifications(mtEvents[1], mtVolunteer[1], now)
          /\ lastResult' = Result("notifications", "ok")
  /\ UNCHANGED <<mtVolunteer, mtEvents, matches>>
  /\ UNCHANGED <<apiVars, localVars, statsVars, authVars, pageVars>>

\* the stored profile and event list are the inputs of the two pages
InitMatch ==
  /\ InitApi /\ InitLocal /\ InitHistoryPage /\ InitTokens /\ InitPages
  /\ mtVolunteer \in {Stored(v) : v \in MatchVolunteers} \cup {Absent}
  /\ mtEvents \in {Stored(l) : l \in MatchEventLists} \cup {Absent}
  /\ matches = <<>>
  /\ notifications = <<>>

NextMatch ==
  \/ VolunteerMatching_mount
  \/ \E now \in Nows : Notifications_mount(now)

SpecMatch == InitMatch /\ [][NextMatch]_vars

\* ---- VolunteerHistoryPage (API client) and the backend's statistics ------
\* a number of the JSON response, kept exact as a fraction
Rat(n, d) == [num |-> n, den |-> d]

\* Number.prototype.toFixed(0): the nearest integer
toFixed0(x) == (2 * x.num + x.den) \div (2 * x.den)

\* number of v's records whose status is in S
CountOf(L, v, S) ==
  LET mine == {r \in BagToSet(L) : r.volunteer_id = v /\ r.status \in S}
  IN  BagCardinality([r \in mine |-> L[r]])

\* variant of computeStats whose total counts the active records only
Engine_computeStats_activeTotal(L, v) ==
  LET total == CountOf(L, v, ActiveStatuses)
      completed == CountOf(L, v, {"completed"})
  IN  [volunteer_id |-> v,
       total_events |-> total,
       completed_events |-> completed,
       pending_events |-> CountOf(L, v, {"pending"}),
       cancelled_events |-> CountOf(L, v, {"cancelled"}),
       no_show_events |-> CountOf(L, v, {"no_show"}),
       completion_rate |-> IF total = 0 THEN Rat(0, 1) ELSE Rat(completed * 100, total)]

\* variant of computeStats that divides in whole numbers before scaling
Engine_computeStats_wholeDivision(L, v) ==
  LET total == CountOf(L, v, ParticipationStatuses)
      completed == CountOf(L, v, {"completed"})
  IN  [volunteer_id |-> v,
       total_events |-> total,
       completed_events |-> completed,
       pending_events |-> CountOf(L, v, {"pending"}),
       cancelled_events |-> CountOf(L, v, {"cancelled"}),
       no_show_events |-> CountOf(L, v, {"no_show"}),
       completion_rate |-> IF total = 0 THEN Rat(0, 1)
                           ELSE Rat((completed \div total) * 100, 1)]

\* computeStats(volunteer_id)
Engine_computeStats(L, v) ==
  LET total == CountOf(L, v, ParticipationStatuses)
      completed == CountOf(L, v, {"completed"})
  IN  [volunteer_id |-> v,
       total_events |-> total,
       completed_events |-> completed,
       pending_events |-> CountOf(L, v, {"pending"}),
       cancelled_events |-> CountOf(L, v, {"cancelled"}),
       no_show_events |-> CountOf(L, v, {"no_show"}),
       completion_rate |-> IF total = 0 THEN Rat(0, 1) ELSE Rat(completed * 100, total)]

\* GET /history/: the caller's records
Engine_getHistory(L, v) == {r \in BagToSet(L) : r.volunteer_id = v}

\* useEffect fetchHistory: Promise.all([getHistory(), getStats()]); a caller
\* without a token is refused and the page keeps its state
fetchHistory(c) ==
  /\ IF CallerRole(c) = "none"
     THEN /\ lastResult' = Result("getStats", "Unauthorized")
          /\ UNCHANGED <<hsHistory, hsStats>>
     ELSE /\ hsHistory' = Engine_getHistory(srvLedger, c)
          /\ hsStats' = Stored(Engine_computeStats(srvLedger, c))
          /\ lastResult' = Result("getStats", "ok")
  /\ UNCHANGED <<apiVars, localVars, matchVars, authVars, pageVars>>

\* the completion rate as the page shows it
shownRate == toFixed0(hsStats[1].completion_rate)

StatsEventIds == 1..MaxHistory

\* histories a volunteer can have built up over the events of the catalog:
\* per event no record or one record in any of the four statuses
StatsLedgers ==
  {SetToBag({Record("v1", e, f[e]) : e \in {x \in StatsEventIds : f[x] # "none"}}) :
      f \in [StatsEventIds -> ParticipationStatuses \cup {"none"}]}

\* the catalog holds MaxHistory open events and v1 has some history on them
InitStats ==
  /\ srvEvents = [e \in StatsEventIds |-> [capacity |-> 1, status |-> "open"]]
  /\ srvNextId = MaxHistory + 1
  /\ srvLedger \in StatsLedgers
  /\ clUser = [c \in Browsers |-> IF c \in Users THEN UserData(c) ELSE NoUser]
  /\ clJoined = [c \in Browsers |-> {}]
  /\ inflight = [c \in Browsers |-> 0]
  /\ dashOpen = [c \in Browsers |-> FALSE]
  /\ lastResult = Result("none", "none")
  /\ InitLocal /\ InitSide

NextStats == \E c \in {"v1", "anon"} : fetchHistory(c)

SpecStats == InitStats /\ [][NextStats]_vars

\* ---- auth session (API client): AuthContext, ApiService, Logout page -----
\* ApiService.clearAuth: removeItem('access_token'), removeItem('currentUser');
\* no code of the API client ever writes 'currentUser'
clearAuth(tokens, c) == [tokens EXCEPT ![c] = NULL]

\* ApiService.logout: the storage is cleared only if (response.ok)
logoutStorage(tokens, c, responseOk) ==
  IF responseOk THEN clearAuth(tokens, c) ELSE tokens

\* AuthContext.login(token, userData): setToken, setUser
AuthContext_login(c) ==
  /\ lsToken' = [lsToken EXCEPT ![c] = c]
  /\ clUser' = [clUser EXCEPT ![c] = UserData(c)]
  /\ lastResult' = Result("login", "ok")
  /\ UNCHANGED <<srvEvents, srvNextId, srvLedger, clJoined, inflight, dashOpen>>
  /\ UNCHANGED <<localVars, matchVars, statsVars, pageVars>>

\* AuthContext.checkAuth, run when the provider mounts (page load)
checkAuth(c, meOk) ==
  /\ IF lsToken[c] # NULL
     THEN IF meOk
          THEN /\ clUser' = [clUser EXCEPT ![c] = UserData(lsToken[c])]
               /\ lastResult' = Result("checkAuth", "ok")
               /\ UNCHANGED lsToken
          ELSE /\ clUser' = [clUser EXCEPT ![c] = NoUser]
               /\ lsToken' = clearAuth(lsToken, c)
               /\ lastResult' = Result("checkAuth", "failed")
     ELSE /\ clUser' = [clUser EXCEPT ![c] = NoUser]
          /\ lastResult' = Result("checkAuth", "NoToken")
          /\ UNCHANGED lsToken
  /\ UNCHANGED <<srvEvents, srvNextId, srvLedger, clJoined, inflight, dashOpen>>
  /\ UNCHANGED <<localVars, matchVars, statsVars, pageVars>>

\* Navbar.handleLogout -> AuthContext.logout: clearAuth, setUser(null)
AuthContext_logout(c) ==
  /\ lsToken' = clearAuth(lsToken, c)
  /\ clUser' = [clUser EXCEPT ![c] = NoUser]
  /\ lastResult' = Result("logout", "ok")
  /\ UNCHANGED <<srvEvents, srvNextId, srvLedger, clJoined, inflight, dashOpen>>
  /\ UNCHANGED <<localVars, matchVars, statsVars, pageVars>>

\* ApiService.logout: POST /auth/logout
ApiService_logout(c, responseOk) ==
  /\ lsToken' = logoutStorage(lsToken, c, responseOk)
  /\ lastResult' = Result("logout", IF responseOk THEN "ok" ELSE "failed")
  /\ UNCHANGED apiVars
  /\ UNCHANGED <<localVars, matchVars, statsVars, pageVars>>

\* Logout page of the API client: await apiService.logout() in try, then
\* clearAuth(), alert and navigate('/') in finally
Logout_page(c, responseOk) ==
  /\ lsToken' = clearAuth(logoutStorage(lsToken, c, responseOk), c)
  /\ lastResult' = Result("logout", "LoggedOutAlert")
  /\ UNCHANGED apiVars
  /\ UNCHANGED <<localVars, matchVars, statsVars, pageVars>>

\* nobody is signed in, in either variant
InitAuth ==
  /\ srvEvents = <<>>
  /\ srvNextId = 1
  /\ srvLedger = EmptyBag
  /\ clUser = [c \in Browsers |-> NoUser]
  /\ clJoined = [c \in Browsers |-> {}]
  /\ inflight = [c \in Browsers |-> 0]
  /\ dashOpen = [c \in Browsers |-> FALSE]
  /\ lastResult = Result("none", "none")
  /\ lsToken = [c \in Browsers |-> NULL]
  /\ InitLocal /\ InitMatchPages /\ InitHistoryPage /\ InitPages

NextAuth ==
  \/ \E c \in Users : AuthContext_login(c)
  \/ \E c \in Users, meOk \in BOOLEAN : checkAuth(c, meOk)
  \/ \E c \in Users : AuthContext_logout(c)
  \/ \E c \in Users, responseOk \in BOOLEAN : ApiService_logout(c, responseOk)
  \/ \E c \in Users, responseOk \in BOOLEAN : Logout_page(c, responseOk)
  \/ \E u \in LocalUsers : Local_login(u)
  \/ Local_Logout

SpecAuth == InitAuth /\ [][NextAuth]_vars

\* ---- local-storage variant: Profile page ---------------------------------
\* the required text inputs of the form (the email input is readOnly)
TextFields == {"fullName", "address1", "city", "state", "zip"}

ProfileDates == {"2025-07-01", "2025-07-02"}

ProfileTimes == {"09:00", "10:00"}

\* body of the page's useEffect, applied to the form of the render that runs
\* it: nothing without a user, else the saved profile or the user's email
profileEffect(form, currentUserEmail) ==
  IF currentUserEmail = NULL THEN form
  ELSE IF lsProfiles[currentUserEmail] # Absent THEN lsProfiles[currentUserEmail][1]
  ELSE [form EXCEPT !.email = currentUserEmail]

\* the render that follows setForm(form): currentUserEmail is read again and
\* the effect runs when it differs from the last render's
Profile_setForm(form) ==
  /\ pfUser' = lsCurrentUser
  /\ pfForm' = IF lsCurrentUser = pfUser THEN form
               ELSE profileEffect(form, lsCurrentUser)

\* first render and useEffect of a Profile page opened (or reloaded)
Profile_mount ==
  /\ pfUser' = lsCurrentUser
  /\ pfForm' = profileEffect(EmptyForm, lsCurrentUser)
  /\ lastResult' = Result("profile", "loaded")
  /\ UNCHANGED profileStores
  /\ UNCHANGED <<apiVars, localVars, matchVars, statsVars, authVars, registerVars, notifVars>>

\* handleChange of a text input
Profile_handleChange(name, value) ==
  /\ Profile_setForm([pfForm EXCEPT ![name] = value])
  /\ lastResult' = Result("profile", "edited")
  /\ UNCHANGED profileStores
  /\ UNCHANGED <<apiVars, localVars, matchVars, statsVars, authVars, registerVars, notifVars>>

\* handleSkillChange: the selected options replace the skills
Profile_handleSkillChange(selected) ==
  /\ Profile_setForm([pfForm EXCEPT !.skills = selected])
  /\ lastResult' = Result("profile", "edited")
  /\ UNCHANGED profileStores
  /\ UNCHANGED <<apiVars, localVars, matchVars, statsVars, authVars, registerVars, notifVars>>

\* variant of the exists test that never finds the slot
availabilityExists_never(availability, d, t) == FALSE

\* form.availability.some(a => a.date === form.newDate && a.time === form.newTime)
availabilityExists(availability, d, t) ==
  \E k \in DOMAIN availability :
     availability[k].date = d /\ availability[k].time = t

\* addAvailability: both inputs filled and the slot not listed yet
Profile_addAvailability ==
  /\ IF pfForm.newDate # "" /\ pfForm.newTime # ""
     THEN IF ~availabilityExists(pfForm.availability, pfForm.newDate, pfForm.newTime)
          THEN /\ Profile_setForm(
                    [pfForm EXCEPT
                       !.availability = Append(@, Availability(pfForm.newDate, pfForm.newTime)),
                       !.newDate = "", !.newTime = ""])
               /\ lastResult' = Result("addAvailability", "ok")
          ELSE /\ lastResult' = Result("addAvailability", "AlreadyListed")
               /\ UNCHANGED <<pfUser, pfForm>>
     ELSE /\ lastResult' = Result("addAvailability", "Incomplete")
          /\ UNCHANGED <<pfUser, pfForm>>
  /\ UNCHANGED profileStores
  /\ UNCHANGED <<apiVars, localVars, matchVars, statsVars, authVars, registerVars, notifVars>>

\* removeAvailability(a.date, a.time) of the k-th listed slot's Remove button
Profile_removeAvailability(k) ==
  /\ k \in DOMAIN pfForm.availability
  /\ LET d == pfForm.availability[k].date
         t == pfForm.availability[k].time
     IN  Profile_setForm(
           [pfForm EXCEPT !.availability =
              SelectSeq(@, LAMBDA a : ~(a.date = d /\ a.time = t))])
  /\ lastResult' = Result("removeAvailability", "ok")
  /\ UNCHANGED profileStores
  /\ UNCHANGED <<apiVars, localVars, matchVars, statsVars, authVars, registerVars, notifVars>>

\* variant of the validation that takes any non-empty zip
invalidForm_anyZip(form) ==
  \/ form.email = "" \/ form.fullName = "" \/ form.address1 = ""
  \/ form.city = "" \/ form.state = "" \/ form.zip = ""
  \/ form.skills = {}
  \/ form.availability = <<>>

\* the first test of handleSubmit
invalidForm(form) ==
  \/ form.email = "" \/ form.fullName = "" \/ form.address1 = ""
  \/ form.city = "" \/ form.state = "" \/ form.zip = ""
  \/ Len(form.zip) < 5
  \/ form.skills = {}
  \/ form.availability = <<>>

\* handleSubmit: validation, email test, setItem('profile_<currentUserEmail>')
Profile_handleSubmit ==
  /\ IF invalidForm(pfForm)
     THEN /\ lastResult' = Result("saveProfile", "ValidationError")
          /\ UNCHANGED profileStores
     ELSE IF pfUser = NULL \/ pfUser # pfForm.email
     THEN /\ lastResult' = Result("saveProfile", "EmailMismatch")
          /\ UNCHANGED profileStores
     ELSE /\ lsProfiles' = [lsProfiles EXCEPT ![pfUser] = Stored(pfForm)]
          /\ lastResult' = Result("saveProfile", "ok")
  /\ UNCHANGED <<pfUser, pfForm, srvProfiles>>
  /\ UNCHANGED <<apiVars, localVars, matchVars, statsVars, authVars, registerVars, notifVars>>

\* ---- local-storage variant: Register page --------------------------------
RegisterEmails == {"u1", "u2", "u3"}

RegisterPasswords == {"pw1", "pw2", "pw3"}

\* variant of the lookup that never finds the email
registered_never(users, email) == FALSE

\* users[email] of the parsed 'users' object
registered(users, email) == email \in DOMAIN users

\* handleRegister with the typed email and password
Register_handleRegister(email, password) ==
  /\ IF email = "" \/ password = ""
     THEN /\ lastResult' = Result("register", "Required")
          /\ UNCHANGED lsUsers
     ELSE IF registered(lsUsers, email)
     THEN /\ lastResult' = Result("register", "AlreadyRegistered")
          /\ UNCHANGED lsUsers
     ELSE /\ lsUsers' = [e \in DOMAIN lsUsers \cup {email} |->
                           IF e = email THEN [password |-> password] ELSE lsUsers[e]]
          /\ lastResult' = Result("register", "ok")
  /\ UNCHANGED <<apiVars, localVars, matchVars, statsVars, authVars, profileVars, notifVars>>

NextRegister ==
  \E email \in RegisterEmails \cup {""}, password \in RegisterPasswords \cup {""} :
     Register_handleRegister(email, password)

SpecRegister == Init /\ [][NextRegister]_vars

\* ---- API client: Notifications page --------------------------------------
\* interface Notification, the fields the page's handlers read or write
ApiNotification(id, read) == [id |-> id, is_read |-> read]

\* the notification lists the backend can hold: ids 1..n, read or unread
NotificationLists ==
  UNION {{[k \in 1..n |-> ApiNotification(k, r[k])] : r \in [1..n -> BOOLEAN]} :
            n \in 0..MaxNotifications}

\* variant of the map that marks every notification read
markRead_all(list, notificationId) ==
  [k \in DOMAIN list |-> [list[k] EXCEPT !.is_read = TRUE]]

\* prev.map(n => n.id === notificationId ? { ...n, is_read: true } : n)
markRead(list, notificationId) ==
  [k \in DOMAIN list |->
     IF list[k].id = notificationId THEN [list[k] EXCEPT !.is_read = TRUE]
     ELSE list[k]]

\* prev.filter(n => n.id !== notificationId)
withoutNotification(list, notificationId) ==
  SelectSeq(list, LAMBDA n : n.id # notificationId)

\* useEffect: getNotifications, then setNotifications(data) unless it failed
ApiNotifications_mount(responseOk) ==
  /\ IF responseOk
     THEN /\ ntList' = srvNotifs
          /\ lastResult' = Result("notifications", "ok")
     ELSE /\ ntList' = <<>>
          /\ lastResult' = Result("notifications", "failed")
  /\ UNCHANGED srvNotifs
  /\ UNCHANGED <<apiVars, localVars, matchVars, statsVars, authVars, profileVars, registerVars>>

\* handleMarkAsRead of a listed notification: PUT /notifications/{id}/read,
\* then the state update unless the call threw
handleMarkAsRead(notificationId, responseOk) ==
  /\ \E k \in DOMAIN ntList : ntList[k].id = notificationId
  /\ IF responseOk
     THEN /\ srvNotifs' = markRead(srvNotifs, notificationId)
          /\ ntList' = markRead(ntList, notificationId)
          /\ lastResult' = Result("markAsRead", "ok")
     ELSE /\ lastResult' = Result("markAsRead", "failed")
          /\ UNCHANGED <<ntList, srvNotifs>>
  /\ UNCHANGED <<apiVars, localVars, matchVars, statsVars, authVars, profileVars, registerVars>>

\* handleDeleteNotification of a listed notification: DELETE
\* /notifications/{id}, then the state update unless the call threw
handleDeleteNotification(notificationId, responseOk) ==
  /\ \E k \in DOMAIN ntList : ntList[k].id = notificationId
  /\ IF responseOk
     THEN /\ srvNotifs' = withoutNotification(srvNotifs, notificationId)
          /\ ntList' = withoutNotification(ntList, notificationId)
          /\ lastResult' = Result("deleteNotification", "ok")
     ELSE /\ lastResult' = Result("deleteNotification", "failed")
          /\ UNCHANGED <<ntList, srvNotifs>>
  /\ UNCHANGED <<apiVars, localVars, matchVars, statsVars, authVars, profileVars, registerVars>>

\* the backend holds any such list for the signed-in user
InitNotifications ==
  /\ InitApi /\ InitLocal /\ InitMatchPages /\ InitHistoryPage /\ InitTokens
  /\ InitProfilePage /\ InitRegisterPage
  /\ ntList = <<>>
  /\ srvNotifs \in NotificationLists

NextNotifications ==
  \/ \E responseOk \in BOOLEAN : ApiNotifications_mount(responseOk)
  \/ \E id \in 1..MaxNotifications, responseOk \in BOOLEAN : handleMarkAsRead(id, responseOk)
  \/ \E id \in 1..MaxNotifications, responseOk \in BOOLEAN :
       handleDeleteNotification(id, responseOk)

SpecNotifications == InitNotifications /\ [][NextNotifications]_vars

\* ---- API client: Profile page --------------------------------------------
\* the first test of the API page's handleSubmit (its form has the fields of
\* the local form less email and fullName)
invalidApiForm(form) ==
  \/ form.address1 = "" \/ form.city = "" \/ form.state = "" \/ form.zip = ""
  \/ Len(form.zip) < 5
  \/ form.skills = {}
  \/ form.availability = <<>>

\* profileData of handleSubmit (ProfileCreate / ProfileUpdate)
profileData(form) ==
  [address |-> [address1 |-> form.address1, city |-> form.city,
                state |-> form.state, zip_code |-> form.zip],
   skills |-> form.skills,
   availability |-> form.availability]

\* POST /profiles/ or PUT /profiles/me: the backend keeps the caller's profile
Engine_saveProfile(store, c, data) == [store EXCEPT ![c] = Stored(data)]

\* handleSubmit of the API page, shown to a signed-in user only; the request
\* (createProfile or updateProfile) is answered ok or with an error
ApiProfile_handleSubmit(c, responseOk) ==
  /\ clUser[c] # NoUser
  /\ IF invalidApiForm(pfForm)
     THEN /\ lastResult' = Result("saveProfile", "ValidationError")
          /\ UNCHANGED srvProfiles
     ELSE IF responseOk
     THEN /\ srvProfiles' = Engine_saveProfile(srvProfiles, c, profileData(pfForm))
          /\ lastResult' = Result("saveProfile", "ok")
     ELSE /\ lastResult' = Result("saveProfile", "failed")
          /\ UNCHANGED srvProfiles
  /\ UNCHANGED <<lsProfiles, pfUser, pfForm>>
  /\ UNCHANGED <<apiVars, localVars, matchVars, statsVars, authVars, registerVars, notifVars>>

\* forms a user can have typed into the Profile page
ProfileForms ==
  [email : LocalUsers \cup {""},
   fullName : {"", "Ann Lee"},
   address1 : {"", "1 Main St"},
   city : {"", "Houston"},
   state : {"", "TX"},
   zip : {"", "7700", "77001"},
   skills : {{}, {"Teaching"}},
   availability : {<<>>, <<Availability("2025-07-01", "09:00")>>},
   newDate : {""},
   newTime : {""}]

\* a Profile page holding any such form; the effect has set the signed-in
\* user's email
InitProfileSave ==
  /\ InitApi /\ InitMatchPages /\ InitHistoryPage /\ InitTokens
  /\ InitRegisterPage /\ InitNotificationsPage
  /\ lsEvents = <<>>
  /\ lsParticipation = [u \in LocalUsers |-> <<>>]
  /\ lsCurrentUser \in LocalUsers \cup {NULL}
  /\ pgUser = [t \in Tabs |-> NULL]
  /\ pgEvents = [t \in Tabs |-> <<>>]
  /\ pgJoined = [t \in Tabs |-> {}]
  /\ admAuthenticated = FALSE
  /\ admEvents = <<>>
  /\ lsProfiles = [u \in LocalUsers |-> Absent]
  /\ srvProfiles = [u \in Users |-> Absent]
  /\ pfUser = lsCurrentUser
  /\ pfForm \in {f \in ProfileForms : pfUser # NULL => f.email = pfUser}

NextProfileSave ==
  \/ Profile_handleSubmit
  \/ \E responseOk \in BOOLEAN : ApiProfile_handleSubmit("v1", responseOk)

SpecProfileSave == InitProfileSave /\ [][NextProfileSave]_vars

\* a form typed in full on a Profile page opened while nobody is signed in
TypedForm ==
  [EmptyForm EXCEPT !.fullName = "Ann Lee", !.address1 = "1 Main St",
                    !.city = "Houston", !.state = "TX", !.zip = "77001",
                    !.skills = {"Teaching"},
                    !.availability = <<Availability("2025-07-01", "09:00")>>]

\* nobody is signed in; the catalog lists one event; a Profile page is open,
\* untouched or typed in full; the matching page's inputs are one profile and
\* that event
InitProfileOwner ==
  /\ InitApi /\ InitHistoryPage /\ InitTokens
  /\ InitRegisterPage /\ InitNotificationsPage
  /\ lsEvents = <<LocalEvent("A")>>
  /\ lsParticipation = [u \in LocalUsers |-> <<>>]
  /\ lsCurrentUser = NULL
  /\ pgUser = [t \in Tabs |-> NULL]
  /\ pgEvents = [t \in Tabs |-> <<>>]
  /\ pgJoined = [t \in Tabs |-> {}]
  /\ admAuthenticated = FALSE
  /\ admEvents = <<>>
  /\ lsProfiles = [u \in LocalUsers |-> Absent]
  /\ srvProfiles = [u \in Users |-> Absent]
  /\ pfUser = NULL
  /\ pfForm \in {EmptyForm, TypedForm}
  /\ mtVolunteer \in {Absent,
                      Stored([skills |-> {"Teaching"}, availability |-> {Slot(1, 9)}])}
  /\ mtEvents = Stored(<<[eventName |-> "A", requiredSkills |-> {"Teaching"},
                          eventDate |-> 1, eventTime |-> 9]>>)
  /\ matches = <<>>
  /\ notifications = <<>>

\* the Profile page next to the pages the volunteer also uses: sign-in and
\* sign-out (in any tab), the events page of tab 1, the matching page
NextProfileOwner ==
  \/ \E u \in LocalUsers : Local_login(u)
  \/ Local_Logout
  \/ Profile_mount
  \/ \E zip \in {"7700", "77001"} : Profile_handleChange("zip", zip)
  \/ Profile_handleSubmit
  \/ AvailableEvents_mount(1)
  \/ \E i \in 1..MaxLocalEvents : Local_handleJoin(1, i)
  \/ \E i \in 1..MaxLocalEvents : Local_handleUnjoin(1, i)
  \/ VolunteerMatching_mount

SpecProfileOwner == InitProfileOwner /\ [][NextProfileOwner]_vars

\* the availability editor of one Profile page, from the empty form
NextAvailability ==
  \/ Profile_mount
  \/ \E d \in ProfileDates \cup {""} : Profile_handleChange("newDate", d)
  \/ \E t \in ProfileTimes \cup {""} : Profile_handleChange("newTime", t)
  \/ Profile_addAvailability
  \/ \E k \in 1..Cardinality(ProfileDates \X ProfileTimes) : Profile_removeAvailability(k)

SpecAvailability == Init /\ [][NextAvailability]_vars

\* the backend answers c's participateInEvent request in this step
JoinAnswered(c) == inflight[c] # 0 /\ inflight'[c] = 0

\* c's request is one the Engine decides on capacity alone
Admissible(c, e) ==
  /\ e \in DOMAIN srvEvents
  /\ srvEvents[e].status = "open"
  /\ RecordsOf(srvLedger, c, e) = {}

C2_LastSlotExactlyOnce ==
  [][\A c \in Volunteers :
       (JoinAnswered(c) /\ Admissible(c, inflight[c])) =>
          LET e == inflight[c]
          IN  IF ActiveCount(srvLedger, e) < srvEvents[e].capacity
              THEN /\ lastResult' = Result("join", "ok")
                   /\ ActiveCount(srvLedger', e) = ActiveCount(srvLedger, e) + 1
              ELSE /\ lastResult' = Result("join", "CapacityExceeded")
                   /\ srvLedger' = srvLedger]_vars

\* two requests were in flight for the last slot: one has been admitted and
\* took it, the other is still waiting for its answer
C2_Witness ==
  /\ lastResult = Result("join", "ok")
  /\ \E c \in Volunteers :
       /\ inflight[c] # 0
       /\ Admissible(c, inflight[c])
       /\ ActiveCount(srvLedger, inflight[c]) = srvEvents[inflight[c]].capacity

\* C5: a join request for an event whose status is not open fails with
\* EventNotJoinable and the ledger stays as it was
C5_ClosedEventNotJoinable ==
  [][\A c \in Volunteers :
       (/\ JoinAnswered(c)
        /\ inflight[c] \in DOMAIN srvEvents
        /\ srvEvents[inflight[c]].status # "open")
       => /\ lastResult' = Result("join", "EventNotJoinable")
          /\ srvLedger' = srvLedger]_vars

\* a join on a closed event has just been refused
C5_Witness ==
  /\ lastResult = Result("join", "EventNotJoinable")
  /\ \E e \in DOMAIN srvEvents : srvEvents[e].status = "closed"

\* C6: a join request for an open event whose active count already equals the
\* capacity fails with CapacityExceeded and creates no record
C6_FullEventRejects ==
  [][\A c \in Volunteers :
       (/\ JoinAnswered(c)
        /\ Admissible(c, inflight[c])
        /\ ActiveCount(srvLedger, inflight[c]) = srvEvents[inflight[c]].capacity)
       => /\ lastResult' = Result("join", "CapacityExceeded")
          /\ srvLedger' = srvLedger]_vars

\* capacity 1: one volunteer holds the pending record, another one's join
\* has just been refused
C6_Witness ==
  /\ lastResult = Result("join", "CapacityExceeded")
  /\ \E e \in DOMAIN srvEvents :
       /\ srvEvents[e].capacity = 1
       /\ \E a \in Volunteers : srvLedger = SetToBag({Record(a, e, "pending")})

\* the record of (v, e) is in a terminal state
InTerminalState(v, e) ==
  \E r \in RecordsOf(srvLedger, v, e) : r.status \in TerminalStatuses

\* C9: setStatus by an administrator on a record that is in a terminal state
\* fails with InvalidTransition and leaves the ledger as it was
C9_TerminalStatusIsFinal ==
  [][\A c \in Admins, e \in EventIds, v \in Volunteers, s \in ParticipationStatuses :
       (InTerminalState(v, e) /\ updateParticipationStatus(c, e, v, s))
       => /\ lastResult' = Result("setStatus", "InvalidTransition")
          /\ srvLedger' = srvLedger]_vars

\* a record is completed and a further setStatus has just been refused
C9_Witness ==
  /\ lastResult = Result("setStatus", "InvalidTransition")
  /\ \E r \in BagToSet(srvLedger) : r.status = "completed"

\* the step is an admin-only call (event create/update/delete, setStatus)
\* made by caller c
AdminOnlyCall(c) ==
  \/ \E cap \in ArgsFor(c, 0..MaxCapacity), st \in ArgsFor(c, EventStatuses) :
        createEvent(c, cap, st)
  \/ \E e \in EventIds, cap \in ArgsFor(c, 0..MaxCapacity), st \in ArgsFor(c, EventStatuses) :
        updateEvent(c, e, cap, st)
  \/ \E e \in EventIds : deleteEvent(c, e)
  \/ \E e \in EventIds, v \in ArgsFor(c, Volunteers), s \in ArgsFor(c, ParticipationStatuses) :
        updateParticipationStatus(c, e, v, s)

\* C10: an admin-only call by a caller whose role is not admin is rejected
\* (Forbidden for a volunteer) and changes neither the catalog nor the
\* ledger; the admin dashboard is rendered only for a user with the admin role
C10_AdminOnly ==
  /\ [](\A c \in Browsers : dashOpen[c] => clUser[c].role = "admin")
  /\ [][\A c \in Callers \ Admins :
          AdminOnlyCall(c)
          => /\ lastResult'.result = IF CallerRole(c) = "volunteer"
                                    THEN "Forbidden" ELSE "Unauthorized"
             /\ UNCHANGED <<srvEvents, srvNextId, srvLedger>>]_vars

\* a volunteer's attempt to create an event has just been refused while the
\* administrator has the dashboard open
C10_Witness ==
  /\ lastResult = Result("createEvent", "Forbidden")
  /\ dashOpen["adm"]
  /\ \E c \in Volunteers : ~dashOpen[c]

\* email u holds a participation record for the event named name
HoldsRecord(u, name) ==
  \E k \in DOMAIN lsParticipation[u] : lsParticipation[u][k].eventName = name

\* C3: in every reachable state a volunteer's participation list holds at
\* most one record per event, whatever joins and unjoins were made and in
\* whichever tab
C3_OneRecordPerEvent ==
  \A u \in LocalUsers :
     \A j, k \in DOMAIN lsParticipation[u] :
        lsParticipation[u][j].eventName = lsParticipation[u][k].eventName => j = k

\* a volunteer holds one record, and a join for that event made from a tab
\* that did not show it as joined has just been turned down
C3_Witness ==
  /\ lastResult = Result("join", "AlreadyEnrolled")
  /\ \E u \in LocalUsers : Len(lsParticipation[u]) = 1

\* C4: handleJoin for an event of which the volunteer already holds a record
\* fails with AlreadyEnrolled ('You already joined this event.') and leaves
\* every participation list as it was
C4_AlreadyEnrolled ==
  [][\A t \in Tabs, i \in 1..MaxLocalEvents :
       (/\ pgUser[t] # NULL
        /\ i \in DOMAIN pgEvents[t]
        /\ HoldsRecord(pgUser[t], pgEvents[t][i].eventName)
        /\ Local_handleJoin(t, i))
       => /\ lastResult' = Result("join", "AlreadyEnrolled")
          /\ lsParticipation' = lsParticipation]_vars

\* a volunteer who joined two events was turned down on joining one of them
\* again, and the list still holds exactly the two records
C4_Witness ==
  /\ lastResult = Result("join", "AlreadyEnrolled")
  /\ \E u \in LocalUsers :
       /\ Len(lsParticipation[u]) = 2
       /\ lsParticipation[u][1].eventName # lsParticipation[u][2].eventName

\* statuses of the records the ledger L holds for (v, e); {} stands for NONE
StatusesOf(L, v, e) == {r.status : r \in RecordsOf(L, v, e)}

C8_SecondUnjoinNotEnrolled ==
  [][\A t \in Tabs, i \in 1..MaxLocalEvents :
       (/\ pgUser[t] # NULL
        /\ i \in DOMAIN pgEvents[t]
        /\ ~HoldsRecord(pgUser[t], pgEvents[t][i].eventName)
        /\ Local_handleUnjoin(t, i))
       => /\ lastResult' = Result("unjoin", "NotEnrolled")
          /\ lsParticipation' = lsParticipation]_vars

\* role of the user signed in to the local-storage variant: the users map
\* written by Register holds a password per email and no role
LocalRoleOf(u) == IF u \in LocalUsers THEN "volunteer" ELSE "none"

\* C10 as claimed, for the local dashboard: it is rendered only for a user
\* whose role is admin
C10_LocalDashboardAdminOnly ==
  admAuthenticated => LocalRoleOf(lsCurrentUser) = "admin"

\* the event is listed in the strict match computed by VolunteerMatching
InStrictMatch(event) == \E k \in DOMAIN matches : matches[k] = event

\* the event is in the recommended view: Notifications announces it as assigned
InRecommended(event) ==
  \E j \in DOMAIN notifications :
     notifications[j] = Notification("assigned", event.eventName)

\* the event's (date, start time) is one of the profile's availability slots
SlotAvailable(event, volunteer) ==
  Slot(event.eventDate, event.eventTime) \in volunteer.availability

\* C11: for every profile and event list, every event of the strict match
\* (VolunteerMatching) is also in the recommended match (Notifications)
C11_StrictWithinRecommended ==
  notifications # <<>> => \A k \in DOMAIN matches : InRecommended(matches[k])

\* both pages have run: one event is in both views, another is recommended
\* only
C11_Witness ==
  /\ matches # <<>>
  /\ \E i \in DOMAIN mtEvents[1] :
       InRecommended(mtEvents[1][i]) /\ ~InStrictMatch(mtEvents[1][i])

\* C12: an event is in the strict match iff one of its required skills is
\* among the profile's skills and its (date, start time) equals one of the
\* profile's availability slots, each event on its own
C12_StrictMatchIff ==
  lastResult = Result("matching", "ok") =>
    \A i \in DOMAIN mtEvents[1] :
       LET event == mtEvents[1][i]
       IN  InStrictMatch(event) <=>
             /\ event.requiredSkills \cap mtVolunteer[1].skills # {}
             /\ SlotAvailable(event, mtVolunteer[1])

\* two events with the same required skill and date: the one at the
\* volunteer's hour is matched, the one at another hour is not
C12_Witness ==
  /\ lastResult = Result("matching", "ok")
  /\ \E i, j \in DOMAIN mtEvents[1] :
       /\ mtEvents[1][i].requiredSkills = mtEvents[1][j].requiredSkills
       /\ mtEvents[1][i].eventDate = mtEvents[1][j].eventDate
       /\ mtEvents[1][i].eventTime # mtEvents[1][j].eventTime
       /\ InStrictMatch(mtEvents[1][i]) /\ ~InStrictMatch(mtEvents[1][j])

C14_EmptyProfileNoMatches ==
  /\ (/\ lastResult.op = "matching"
      /\ mtVolunteer # Absent /\ mtEvents # Absent
      /\ (mtVolunteer[1].skills = {} \/ mtVolunteer[1].availability = {}))
     => lastResult.result = "ok" /\ matches = <<>>
  /\ (/\ lastResult.op = "notifications"
      /\ mtVolunteer # Absent /\ mtEvents # Absent
      /\ mtVolunteer[1].skills = {})
     => /\ lastResult.result = "ok"
        /\ \A i \in DOMAIN mtEvents[1] :
              mtEvents[1][i].requiredSkills # {} => ~InRecommended(mtEvents[1][i])

\* a volunteer without skills but with the slot of an event that requires a
\* skill: the strict match has been computed and is empty
C14_Witness ==
  /\ lastResult = Result("matching", "ok")
  /\ mtVolunteer[1].skills = {}
  /\ \E i \in DOMAIN mtEvents[1] :
       /\ mtEvents[1][i].requiredSkills # {}
       /\ SlotAvailable(mtEvents[1][i], mtVolunteer[1])
  /\ matches = <<>>

\* C15: in the stats of a volunteer total_events is the sum of the
\* completed, pending, cancelled and no_show counts and the number of the
\* volunteer's records, each of which has one of those four statuses
C15_TotalIsSumOfCounts ==
  hsStats # Absent =>
    LET st == hsStats[1]
    IN  /\ st.total_events = st.completed_events + st.pending_events
                             + st.cancelled_events + st.no_show_events
        /\ st.total_events = Cardinality(hsHistory)
        /\ \A r \in hsHistory : r.status \in ParticipationStatuses

\* stats of a history with a pending, a cancelled and a no_show record
C15_Witness ==
  /\ hsStats # Absent
  /\ hsStats[1].total_events = 3
  /\ hsStats[1].pending_events = 1
  /\ hsStats[1].cancelled_events = 1
  /\ hsStats[1].no_show_events = 1

\* C16: completion_rate is completed / total_events x 100, and 0 for a
\* volunteer without records; the page shows it rounded to a whole number
C16_CompletionRate ==
  hsStats # Absent =>
    LET st == hsStats[1]
        rate == st.completion_rate
    IN  /\ rate.den > 0
        /\ IF st.total_events = 0
           THEN rate.num = 0 /\ shownRate = 0
           ELSE /\ rate.num * st.total_events = st.completed_events * 100 * rate.den
                /\ 2 * shownRate * st.total_events - 200 * st.completed_events
                     \in (0 - st.total_events + 1)..st.total_events

\* two of three records are completed: the rate 66.67 is shown as 67
C16_Witness ==
  /\ hsStats # Absent
  /\ hsStats[1].total_events = 3
  /\ hsStats[1].completed_events = 2
  /\ shownRate = 67

\* C17 as claimed: an assignment notification is shown only for an event
\* that some volunteer has joined (holds a participation record for)
C17_AssignmentOnlyAfterJoin ==
  \A j \in DOMAIN notifications :
     notifications[j].type = "assigned"
     => \E u \in LocalUsers : HoldsRecord(u, notifications[j].eventName)

\* C18 as claimed: after a logout by any of the paths no access token and no
\* currentUser entry remain and the session (the context's user) is
\* unauthenticated, whatever the server answered
C18_LogoutClearsSession ==
  /\ [][\A c \in Users :
          (\/ AuthContext_logout(c)
           \/ \E responseOk \in BOOLEAN : ApiService_logout(c, responseOk)
           \/ \E responseOk \in BOOLEAN : Logout_page(c, responseOk))
          => lsToken'[c] = NULL /\ clUser'[c] = NoUser]_vars
  /\ [][Local_Logout => lsCurrentUser' = NULL]_vars

\* the records of a participation list that are about other events than name
OtherRecords(participation, name) ==
  SelectSeq(participation, LAMBDA p : p.eventName # name)

\* C19: an unjoin removes the volunteer's record of that event entirely: the
\* list then holds no record of the event, and the volunteer's records of
\* every other event are the same, in the same order
C19_UnjoinRemovesOnlyThatRecord ==
  [][\A t \in Tabs : \A i \in 1..MaxLocalEvents :
       Local_handleUnjoin(t, i)
       => LET u == pgUser[t]
              name == pgEvents[t][i].eventName
          IN  /\ \A k \in DOMAIN lsParticipation'[u] :
                    lsParticipation'[u][k].eventName # name
              /\ lsParticipation'[u] = OtherRecords(lsParticipation[u], name)]_vars

\* an unjoin has just succeeded and the volunteer still holds another record
C19_Witness ==
  /\ lastResult = Result("unjoin", "ok")
  /\ lsCurrentUser # NULL
  /\ Len(lsParticipation[lsCurrentUser]) = 1
  /\ \E t \in Tabs : /\ pgUser[t] = lsCurrentUser
                     /\ Cardinality(pgJoined[t]) = 1
                     /\ Len(pgEvents[t]) = 2

C22_AvailabilityHasNoDuplicates ==
  /\ [](\A j, k \in DOMAIN pfForm.availability :
          (/\ pfForm.availability[j].date = pfForm.availability[k].date
           /\ pfForm.availability[j].time = pfForm.availability[k].time) => j = k)
  /\ [][(/\ Profile_addAvailability
         /\ \E k \in DOMAIN pfForm.availability :
               /\ pfForm.availability[k].date = pfForm.newDate
               /\ pfForm.availability[k].time = pfForm.newTime)
        => pfForm'.availability = pfForm.availability]_vars

\* a listed slot was entered again and refused while two slots are listed
C22_Witness ==
  /\ lastResult = Result("addAvailability", "AlreadyListed")
  /\ Len(pfForm.availability) = 2
  /\ \E k \in DOMAIN pfForm.availability :
        /\ pfForm.availability[k].date = pfForm.newDate
        /\ pfForm.availability[k].time = pfForm.newTime

\* a form with a postal code shorter than 5 characters, no skill, no
\* availability slot or a missing address field
BadProfileInput(form) ==
  \/ Len(form.zip) < 5
  \/ Cardinality(form.skills) = 0
  \/ Len(form.availability) = 0
  \/ \E name \in {"address1", "city", "state"} : form[name] = ""

\* C23: a profile save of such a form is answered with a validation error and
\* writes neither the stored profile nor the backend
C23_InvalidProfileRejected ==
  [][(/\ BadProfileInput(pfForm)
      /\ \/ Profile_handleSubmit
         \/ \E responseOk \in BOOLEAN : ApiProfile_handleSubmit("v1", responseOk))
     => /\ lastResult' = Result("saveProfile", "ValidationError")
        /\ lsProfiles' = lsProfiles
        /\ srvProfiles' = srvProfiles]_vars

\* a form whose only flaw is a four-character postal code was refused
C23_Witness ==
  /\ lastResult = Result("saveProfile", "ValidationError")
  /\ pfForm.zip = "7700"
  /\ pfForm.email # "" /\ pfForm.fullName # "" /\ pfForm.address1 # ""
  /\ pfForm.city # "" /\ pfForm.state # ""
  /\ pfForm.skills # {} /\ pfForm.availability # <<>>

\* C21 as claimed: a stored profile changes only in a save step made while
\* its owner is the signed-in user, and a save of a form whose email is not
\* the signed-in user's writes nothing; matching, join and unjoin write none
C21_ProfileChangedOnlyByOwner ==
  /\ [][\A u \in LocalUsers :
          lsProfiles'[u] # lsProfiles[u]
          => Profile_handleSubmit /\ lsCurrentUser = u /\ pfForm.email = u]_vars
  /\ [][(Profile_handleSubmit /\ pfForm.email # lsCurrentUser)
        => lsProfiles' = lsProfiles]_vars
  /\ [][(\/ VolunteerMatching_mount
         \/ \E i \in 1..MaxLocalEvents : Local_handleJoin(1, i)
         \/ \E i \in 1..MaxLocalEvents : Local_handleUnjoin(1, i))
        => UNCHANGED <<lsProfiles, mtVolunteer>>]_vars

\* C24: every event the catalog stores has capacity >= 1, every form the
\* admin dashboard sends to the backend has capacity >= 1, and a create
\* request with capacity below 1 is refused and creates no event
C24_CapacityAtLeastOne ==
  /\ [](\A e \in DOMAIN srvEvents : srvEvents[e].capacity >= 1)
  /\ [][\A c \in Browsers : \A form \in AdminForms :
          (AdminDashboard_handleSubmit(c, form) /\ lastResult'.result # "MissingField")
          => form.capacity.n >= 1]_vars
  /\ [][\A c \in Callers : \A st \in EventStatuses :
          createEvent(c, 0, st)
          => srvEvents' = srvEvents /\ lastResult'.result # "ok"]_vars

\* the administrator's create request with capacity 0 was refused as invalid
C24_Witness ==
  /\ lastResult = Result("createEvent", "ValidationError")
  /\ DOMAIN srvEvents = {}

\* list holds entries of catalog in the catalog's relative order, none twice
InCatalogOrder(list, catalog) ==
  /\ \A j \in DOMAIN list : \E a \in DOMAIN catalog : catalog[a] = list[j]
  /\ \A j, k \in DOMAIN list :
        j < k => \E a, b \in DOMAIN catalog :
                    a < b /\ catalog[a] = list[j] /\ catalog[b] = list[k]

\* the names Notifications announces as assigned, in the order shown
AssignedNames ==
  LET a == SelectSeq(notifications, LAMBDA n : n.type = "assigned")
  IN  [k \in DOMAIN a |-> a[k].eventName]

\* C25: the strict match and the recommended (assigned) events are listed in
\* the relative order of the stored event list, no event more than once
C25_MatchesInCatalogOrder ==
  mtEvents # Absent =>
    /\ InCatalogOrder(matches, mtEvents[1])
    /\ InCatalogOrder(AssignedNames,
                      [a \in DOMAIN mtEvents[1] |-> mtEvents[1][a].eventName])

\* both pages have run and each lists two events
C25_Witness ==
  /\ Len(matches) = 2
  /\ Len(AssignedNames) = 2

\* C26 as claimed: in the auth session, whenever the context's user is set
\* (isAuthenticated) an access token is stored
C26_UserImpliesToken ==
  \A c \in Users : isAuthenticated(clUser[c]) => lsToken[c] # NULL

\* the event names of the participation records stored for user u
StoredNames(u) ==
  {lsParticipation[u][k].eventName : k \in DOMAIN lsParticipation[u]}

\* C27: with one instance of the events page, its joinedEvents holds exactly
\* the event names of the records stored for the user it rendered for
C27_JoinedEventsMatchStorage ==
  pgUser[1] # NULL => pgJoined[1] = StoredNames(pgUser[1])

\* the page has unjoined one of two joined events
C27_Witness ==
  /\ lastResult = Result("unjoin", "ok")
  /\ pgUser[1] # NULL
  /\ Cardinality(pgJoined[1]) = 1
  /\ Len(pgEvents[1]) = 2

\* with a second instance of the page acting for the same user, the first
\* one's joinedEvents differs from the stored records
C27_SecondTabDiverges ==
  /\ pgUser[1] # NULL
  /\ pgUser[2] = pgUser[1]
  /\ pgJoined[1] # StoredNames(pgUser[1])

\* C28: every event of the stored catalog has a name, description, location,
\* urgency, date and time and at least one required skill, and a create
\* submission that lacks one of them leaves the catalog as it was
C28_StoredEventsComplete ==
  /\ [](\A i \in DOMAIN lsEvents :
          /\ lsEvents[i].eventName # "" /\ lsEvents[i].description # ""
          /\ lsEvents[i].location # "" /\ lsEvents[i].urgency # ""
          /\ lsEvents[i].eventDate # "" /\ lsEvents[i].eventTime # ""
          /\ lsEvents[i].requiredSkills # {})
  /\ [][\A form \in LocalEventForms \ {LocalEvent(name) : name \in LocalNames} :
          LocalAdmin_handleSubmit(form)
          => lsEvents' = lsEvents /\ lastResult' = Result("createEvent", "MissingField")]_vars

\* a submission with an empty field was refused while the catalog holds an event
C28_Witness ==
  /\ lastResult = Result("createEvent", "MissingField")
  /\ Len(lsEvents) = 1

\* C29: registering an email that is already registered is refused and
\* leaves the users map as it was; a registered email keeps its credential
\* whatever registrations follow
C29_DuplicateRegistrationRejected ==
  /\ [][\A email \in DOMAIN lsUsers : \A password \in RegisterPasswords :
          Register_handleRegister(email, password)
          => /\ lsUsers' = lsUsers
             /\ lastResult' = Result("register", "AlreadyRegistered")]_vars
  /\ [][\A email \in DOMAIN lsUsers :
          email \in DOMAIN lsUsers' /\ lsUsers'[email] = lsUsers[email]]_vars

\* a second registration of u1, with another password, was refused
C29_Witness ==
  /\ lastResult = Result("register", "AlreadyRegistered")
  /\ "u1" \in DOMAIN lsUsers
  /\ lsUsers["u1"].password = "pw1"
  /\ Cardinality(DOMAIN lsUsers) = 2

\* C30: a successful mark-as-read sets is_read on the listed notifications
\* with that id and on no other, keeping length and order; a failed
\* mark-as-read or delete leaves the displayed list as it was
C30_MarkAsReadTouchesOnlyThatOne ==
  /\ [][\A id \in 1..MaxNotifications :
          handleMarkAsRead(id, TRUE)
          => /\ Len(ntList') = Len(ntList)
             /\ \A k \in DOMAIN ntList :
                   /\ ntList'[k].id = ntList[k].id
                   /\ ntList'[k].is_read = (ntList[k].is_read \/ ntList[k].id = id)]_vars
  /\ [][\A id \in 1..MaxNotifications :
          (handleMarkAsRead(id, FALSE) \/ handleDeleteNotification(id, FALSE))
          => ntList' = ntList]_vars

\* one of three listed notifications was marked read, another is still unread
C30_Witness ==
  /\ lastResult = Result("markAsRead", "ok")
  /\ Len(ntList) = 3
  /\ \E j, k \in DOMAIN ntList : ntList[j].is_read /\ ~ntList[k].is_read

Next ==
  \/ NextApi \/ NextLocal \/ NextMatch \/ NextStats \/ NextAuth
  \/ NextAvailability \/ NextProfileSave \/ NextProfileOwner
  \/ NextOneTab \/ NextRegister \/ NextNotifications

Spec == Init /\ [][Next]_vars
====
